---- MODULE Spec2Model ----
(***************************************************************************)
(* Model of graspologic.models.edge_swaps.EdgeSwap: construction of the    *)
(* chain from an adjacency matrix and the trials run by swap_edges.        *)
(***************************************************************************)
EXTENDS Integers, Sequences, FiniteSets, TLC

(* ---- bounds of the model ---- *)
\* number of vertices of the input matrix
N == 4
\* largest number of nonzero cells of a generated input matrix
MaxArcs == 3
\* largest cell value of a generated input matrix
MaxWeight == 2
\* largest seed passed to swap_edges (the smallest is -1)
MaxSeed == 1
\* total number of trials requested over all calls of one behaviour
MaxTrials == 3
\* number of swap_edges calls on one EdgeSwap instance
MaxCalls == 2
\* vertices of the graphs handed to the vertex nomination module
NV == 3
\* arcs of those graphs
MaxVnArcs == 2
\* largest order of an induced subgraph
MaxOrder == 2
\* seeds in each of the two seed lists
MaxSeedCount == 1
\* fit or fit_predict calls on one estimator
MaxFits == 2

Vertices == 0 .. (N - 1)
Cells == Vertices \X Vertices
Seeds == (0 - 1) .. MaxSeed

ZeroMatrix == [c \in Cells |-> 0]

\* adjacency matrices with at most k nonzero cells, values up to MaxWeight,
\* the diagonal included
RECURSIVE Matrices(_)
Matrices(k) ==
    IF k = 0 THEN {ZeroMatrix}
    ELSE LET M == Matrices(k - 1)
         IN  M \cup {[m EXCEPT ![c] = w] : m \in M, c \in Cells, w \in 1 .. MaxWeight}

\* the symmetric 4-cycle 0-1-2-3-0, all weights 1
Cycle4 ==
    [c \in Cells |->
        IF c \in {<<0, 1>>, <<1, 0>>, <<1, 2>>, <<2, 1>>,
                  <<2, 3>>, <<3, 2>>, <<3, 0>>, <<0, 3>>} THEN 1 ELSE 0]

\* the path 0-1-2 on four vertices, arcs (0,1),(1,0),(1,2),(2,1)
Path4 ==
    [c \in Cells |->
        IF c \in {<<0, 1>>, <<1, 0>>, <<1, 2>>, <<2, 1>>} THEN 1 ELSE 0]

Inputs == Matrices(MaxArcs) \cup {Path4, Cycle4}

(* ---- library calls of the constructor ---- *)
\* graspologic.utils.is_unweighted: every entry is 0 or 1
is_unweighted(adj) == \A c \in Cells : adj[c] \in {0, 1}

\* graspologic.utils.is_loopless (dense) and the diagonal scan (sparse)
is_loopless(adj) == \A i \in Vertices : adj[i, i] = 0

\* graspologic.preconditions.check_argument(check, message) raises
\* ValueError(message) iff check is falsy; TRUE when it passes
check_argument(check) == check

\* truth value of a Python int
truthy(n) == n # 0

(* ---- EdgeSwap._do_setup ---- *)
\* variant: only the cells above the diagonal are listed
RECURSIVE nonzero_upper(_, _)
nonzero_upper(adj, k) ==
    IF k = N * N THEN <<>>
    ELSE LET cell == <<k \div N, k % N>>
         IN  IF adj[cell] # 0 /\ cell[1] < cell[2]
             THEN <<cell>> \o nonzero_upper(adj, k + 1)
             ELSE nonzero_upper(adj, k + 1)

\* np.nonzero lists the nonzero cells in row-major order
RECURSIVE nonzero(_, _)
nonzero(adj, k) ==
    IF k = N * N THEN <<>>
    ELSE LET cell == <<k \div N, k % N>>
         IN  IF adj[cell] # 0 THEN <<cell>> \o nonzero(adj, k + 1)
             ELSE nonzero(adj, k + 1)

_do_setup(adj) == nonzero(adj, 0)

\* the argument of the last check of __init__: len(edge_list >= 2), the
\* length of the elementwise comparison of edge_list with 2
len_edge_list_ge_2(el) ==
    Len([k \in DOMAIN el |-> <<el[k][1] >= 2, el[k][2] >= 2>>])

(* ---- EdgeSwap.__init__ ---- *)
\* variant: the loop check of line 65 is missing
__init__no_loop_check(adj) ==
    LET weight_check == is_unweighted(adj)
    IN  IF ~check_argument(weight_check = TRUE)
        THEN [raised |-> TRUE, err |-> "adjacency must be unweighted",
              edge_list |-> <<>>]
        ELSE LET el == _do_setup(adj)
             IN  IF ~check_argument(truthy(len_edge_list_ge_2(el)))
                 THEN [raised |-> TRUE, err |-> "there must be at least 2 edges",
                       edge_list |-> <<>>]
                 ELSE [raised |-> FALSE, err |-> "none", edge_list |-> el]

\* variant: the weight check of line 53 is missing
__init__no_weight_check(adj) ==
    LET loop_check == ~is_loopless(adj)
    IN  IF ~check_argument(loop_check = FALSE)
        THEN [raised |-> TRUE, err |-> "adjacency cannot have loops",
              edge_list |-> <<>>]
        ELSE LET el == _do_setup(adj)
             IN  IF ~check_argument(truthy(len_edge_list_ge_2(el)))
                 THEN [raised |-> TRUE, err |-> "there must be at least 2 edges",
                       edge_list |-> <<>>]
                 ELSE [raised |-> FALSE, err |-> "none", edge_list |-> el]

\* the constructor as a function of its argument: whether it raises, the
\* message, and self.edge_list (<<>> when it is never assigned)
__init__(adj) ==
    LET weight_check == is_unweighted(adj)
        loop_check == ~is_loopless(adj)
    IN  IF ~check_argument(weight_check = TRUE)
        THEN [raised |-> TRUE, err |-> "adjacency must be unweighted",
              edge_list |-> <<>>]
        ELSE IF ~check_argument(loop_check = FALSE)
        THEN [raised |-> TRUE, err |-> "adjacency cannot have loops",
              edge_list |-> <<>>]
        ELSE LET el == _do_setup(adj)
             IN  IF ~check_argument(truthy(len_edge_list_ge_2(el)))
                 THEN [raised |-> TRUE, err |-> "there must be at least 2 edges",
                       edge_list |-> <<>>]
                 ELSE [raised |-> FALSE, err |-> "none", edge_list |-> el]

(* ---- EdgeSwap._edge_swap, after the draw ---- *)
\* variant: line 146 is missing, the cell (x,y) is not cleared
perform_swap_keeps_xy(adj, el, inds) ==
    LET u == el[inds[1] + 1][1]
        v == el[inds[1] + 1][2]
        x == el[inds[2] + 1][1]
        y == el[inds[2] + 1][2]
    IN  [adjacency |->
            [[[adj EXCEPT ![u, v] = 0]
                   EXCEPT ![u, x] = 1]
                   EXCEPT ![v, y] = 1],
         edge_list |->
            [[el EXCEPT ![inds[1] + 1] = <<u, x>>]
                 EXCEPT ![inds[2] + 1] = <<v, y>>]]

\* variant: lines 148-153 set and record (u,y) and (x,v), the swap that
\* keeps every row sum
perform_swap_crossed(adj, el, inds) ==
    LET u == el[inds[1] + 1][1]
        v == el[inds[1] + 1][2]
        x == el[inds[2] + 1][1]
        y == el[inds[2] + 1][2]
    IN  [adjacency |->
            [[[[adj EXCEPT ![u, v] = 0]
                    EXCEPT ![x, y] = 0]
                    EXCEPT ![u, y] = 1]
                    EXCEPT ![x, v] = 1],
         edge_list |->
            [[el EXCEPT ![inds[1] + 1] = <<u, y>>]
                 EXCEPT ![inds[2] + 1] = <<x, v>>]]

\* variant: lines 145-149 also write the transposed cells, keeping a
\* symmetric matrix symmetric
perform_swap_both_directions(adj, el, inds) ==
    LET u == el[inds[1] + 1][1]
        v == el[inds[1] + 1][2]
        x == el[inds[2] + 1][1]
        y == el[inds[2] + 1][2]
    IN  [adjacency |->
            [[[[[[[[adj EXCEPT ![u, v] = 0]
                        EXCEPT ![v, u] = 0]
                        EXCEPT ![x, y] = 0]
                        EXCEPT ![y, x] = 0]
                        EXCEPT ![u, x] = 1]
                        EXCEPT ![x, u] = 1]
                        EXCEPT ![v, y] = 1]
                        EXCEPT ![y, v] = 1],
         edge_list |->
            [[el EXCEPT ![inds[1] + 1] = <<u, x>>]
                 EXCEPT ![inds[2] + 1] = <<v, y>>]]

\* variant: line 149 is missing, the cell (v,y) is not set
perform_swap_drops_vy(adj, el, inds) ==
    LET u == el[inds[1] + 1][1]
        v == el[inds[1] + 1][2]
        x == el[inds[2] + 1][1]
        y == el[inds[2] + 1][2]
    IN  [adjacency |->
            [[[adj EXCEPT ![u, v] = 0]
                   EXCEPT ![x, y] = 0]
                   EXCEPT ![u, x] = 1],
         edge_list |->
            [[el EXCEPT ![inds[1] + 1] = <<u, x>>]
                 EXCEPT ![inds[2] + 1] = <<v, y>>]]

\* variant: lines 152-153 write (v,y) at the first drawn position and (u,x)
\* at the second
perform_swap_exchanged_positions(adj, el, inds) ==
    LET u == el[inds[1] + 1][1]
        v == el[inds[1] + 1][2]
        x == el[inds[2] + 1][1]
        y == el[inds[2] + 1][2]
    IN  [adjacency |->
            [[[[adj EXCEPT ![u, v] = 0]
                    EXCEPT ![x, y] = 0]
                    EXCEPT ![u, x] = 1]
                    EXCEPT ![v, y] = 1],
         edge_list |->
            [[el EXCEPT ![inds[1] + 1] = <<v, y>>]
                 EXCEPT ![inds[2] + 1] = <<u, x>>]]

\* the swap of lines 144-154 applied to the entries at positions inds
perform_swap(adj, el, inds) ==
    LET u == el[inds[1] + 1][1]
        v == el[inds[1] + 1][2]
        x == el[inds[2] + 1][1]
        y == el[inds[2] + 1][2]
    IN  [adjacency |->
            [[[[adj EXCEPT ![u, v] = 0]
                    EXCEPT ![x, y] = 0]
                    EXCEPT ![u, x] = 1]
                    EXCEPT ![v, y] = 1],
         edge_list |->
            [[el EXCEPT ![inds[1] + 1] = <<u, x>>]
                 EXCEPT ![inds[2] + 1] = <<v, y>>]]

\* variant: the check of line 127 (u == x or v == y) is missing
_edge_swap_no_collision_check(adj, el, inds) ==
    LET u == el[inds[1] + 1][1]
        v == el[inds[1] + 1][2]
        x == el[inds[2] + 1][1]
        y == el[inds[2] + 1][2]
        same == [adjacency |-> adj, edge_list |-> el]
    IN  IF u = v \/ x = y THEN same
        ELSE IF adj[u, v] > 1 \/ adj[x, y] > 1 THEN same
        ELSE IF adj[u, x] >= 1 \/ adj[v, y] >= 1 THEN same
        ELSE perform_swap(adj, el, inds)

\* variant: lines 152-153 are missing, the edge list is never rewritten
_edge_swap_stale_edge_list(adj, el, inds) ==
    LET u == el[inds[1] + 1][1]
        v == el[inds[1] + 1][2]
        x == el[inds[2] + 1][1]
        y == el[inds[2] + 1][2]
        same == [adjacency |-> adj, edge_list |-> el]
    IN  IF u = v \/ x = y THEN same
        ELSE IF u = x \/ v = y THEN same
        ELSE IF adj[u, v] > 1 \/ adj[x, y] > 1 THEN same
        ELSE IF adj[u, x] >= 1 \/ adj[v, y] >= 1 THEN same
        ELSE [adjacency |-> perform_swap(adj, el, inds).adjacency, edge_list |-> el]

\* variant: lines 145-146 run before the check of line 141, so a pair
\* rejected by that check has already had its two cells cleared
_edge_swap_write_before_check(adj, el, inds) ==
    LET u == el[inds[1] + 1][1]
        v == el[inds[1] + 1][2]
        x == el[inds[2] + 1][1]
        y == el[inds[2] + 1][2]
        same == [adjacency |-> adj, edge_list |-> el]
    IN  IF u = v \/ x = y THEN same
        ELSE IF u = x \/ v = y THEN same
        ELSE IF adj[u, v] > 1 \/ adj[x, y] > 1 THEN same
        ELSE IF adj[u, x] >= 1 \/ adj[v, y] >= 1
             THEN [adjacency |-> [[adj EXCEPT ![u, v] = 0] EXCEPT ![x, y] = 0],
                   edge_list |-> el]
        ELSE perform_swap(adj, el, inds)

\* variant: line 127 tests u == y or v == x
_edge_swap_wrong_collision_check(adj, el, inds) ==
    LET u == el[inds[1] + 1][1]
        v == el[inds[1] + 1][2]
        x == el[inds[2] + 1][1]
        y == el[inds[2] + 1][2]
        same == [adjacency |-> adj, edge_list |-> el]
    IN  IF u = v \/ x = y THEN same
        ELSE IF u = y \/ v = x THEN same
        ELSE IF adj[u, v] > 1 \/ adj[x, y] > 1 THEN same
        ELSE IF adj[u, x] >= 1 \/ adj[v, y] >= 1 THEN same
        ELSE perform_swap(adj, el, inds)

\* variant: line 141 is missing, a pair is swapped although one of the
\* cells (u,x), (v,y) is already set
_edge_swap_no_multiplicity_check(adj, el, inds) ==
    LET u == el[inds[1] + 1][1]
        v == el[inds[1] + 1][2]
        x == el[inds[2] + 1][1]
        y == el[inds[2] + 1][2]
        same == [adjacency |-> adj, edge_list |-> el]
    IN  IF u = v \/ x = y THEN same
        ELSE IF u = x \/ v = y THEN same
        ELSE IF adj[u, v] > 1 \/ adj[x, y] > 1 THEN same
        ELSE perform_swap(adj, el, inds)

\* variant: a pair rejected by line 127 leaves its two entries exchanged
\* in the edge list
_edge_swap_reorders_on_reject(adj, el, inds) ==
    LET u == el[inds[1] + 1][1]
        v == el[inds[1] + 1][2]
        x == el[inds[2] + 1][1]
        y == el[inds[2] + 1][2]
        same == [adjacency |-> adj, edge_list |-> el]
    IN  IF u = v \/ x = y THEN same
        ELSE IF u = x \/ v = y
             THEN [adjacency |-> adj,
                   edge_list |-> [[el EXCEPT ![inds[1] + 1] = <<x, y>>]
                                      EXCEPT ![inds[2] + 1] = <<u, v>>]]
        ELSE IF adj[u, v] > 1 \/ adj[x, y] > 1 THEN same
        ELSE IF adj[u, x] >= 1 \/ adj[v, y] >= 1 THEN same
        ELSE perform_swap(adj, el, inds)

\* orig_inds: pair of 0-based positions of edge_list
_edge_swap(adj, el, inds) ==
    LET u == el[inds[1] + 1][1]
        v == el[inds[1] + 1][2]
        x == el[inds[2] + 1][1]
        y == el[inds[2] + 1][2]
        same == [adjacency |-> adj, edge_list |-> el]
    IN  IF u = v \/ x = y THEN same
        ELSE IF u = x \/ v = y THEN same
        ELSE LET w_uv == adj[u, v]
                 w_xy == adj[x, y]
                 w_ux == adj[u, x]
                 w_vy == adj[v, y]
             IN  IF w_uv > 1 \/ w_xy > 1 THEN same
                 ELSE IF w_ux >= 1 \/ w_vy >= 1 THEN same
                 ELSE perform_swap(adj, el, inds)

\* the four checks of lines 122-142 alone: TRUE iff none of them returns
validator(adj, el, inds) ==
    LET u == el[inds[1] + 1][1]
        v == el[inds[1] + 1][2]
        x == el[inds[2] + 1][1]
        y == el[inds[2] + 1][2]
    IN  IF u = v \/ x = y THEN FALSE
        ELSE IF u = x \/ v = y THEN FALSE
        ELSE IF adj[u, v] > 1 \/ adj[x, y] > 1 THEN FALSE
        ELSE IF adj[u, x] >= 1 \/ adj[v, y] >= 1 THEN FALSE
        ELSE TRUE

\* np.random.choice(len(edge_list), size=2, replace=False): the ordered
\* pairs of distinct positions; empty when there are fewer than two
choice(n) == {inds \in (0 .. (n - 1)) \X (0 .. (n - 1)) : inds[1] # inds[2]}

(* ---- state ---- *)
VARIABLES
    input,      \* content of the matrix handed to the constructor
    adjacency,  \* self.adjacency (the same array object as the argument)
    edge_list,  \* self.edge_list, <<>> while not set
    pc,         \* "new", "ready", "loop", "raised" (__init__), "failed" (swap_edges)
    err,        \* message of the exception raised, "none" otherwise
    n_swaps,    \* argument of the current or last swap_edges call
    seed,       \* argument of the current or last swap_edges call
    swap,       \* iterations of the for loop completed in this call
    trials,     \* _edge_swap invocations made in this call
    orig_inds,  \* pair drawn by the trial just made, <<>> outside the loop
    calls,      \* swap_edges calls begun on this instance
    run,        \* 1 for the first instance, 2 for the one built afterwards
    first,      \* what the first instance's call returned, when run = 2
    budget,     \* trials the caller may still request
    accepted,   \* pairs drawn by the trials of this instance that passed the checks
    heap,       \* two instances: the arrays, 1 the caller's matrix, 2 a copy of it
    chain,      \* two instances: per instance the array it refers to and its edge list
    pending,    \* overlapped trials: the pairs validated and not yet all executed
    csr,        \* an EdgeSwap built on the csr_matrix of the same content
    sub,        \* a call of _get_induced_subgraph_list: arguments and result
    vn          \* a VNviaSGM estimator: attributes, last call and its outcome

vars == <<input, adjacency, edge_list, pc, err, n_swaps, seed, swap, trials,
          orig_inds, calls, run, first, budget, accepted, heap, chain, pending,
          csr, sub, vn>>

\* the variables of the sparse instance and of the vertex nomination module
other == <<csr, sub, vn>>

\* the variables used only when two instances or two overlapped trials run,
\* and those of the other modules
aux == <<heap, chain, pending, other>>

NoCsr == [pc |-> "none"]

NoSub == [pc |-> "none"]

NoVn == [pc |-> "none"]

NoPending == [base |-> <<>>, locals |-> <<>>, done |-> {}]

NoResult == [adjacency |-> ZeroMatrix, edge_list |-> <<>>, n_swaps |-> 0 - 1, seed |-> 0]

Init ==
    /\ input \in Inputs
    /\ adjacency = input
    /\ edge_list = <<>>
    /\ pc = "new"
    /\ err = "none"
    /\ n_swaps = 0
    /\ seed = 0
    /\ swap = 0
    /\ trials = 0
    /\ orig_inds = <<>>
    /\ calls = 0
    /\ run = 1
    /\ first = NoResult
    /\ budget = MaxTrials
    /\ accepted = <<>>
    /\ heap = <<>>
    /\ chain = <<>>
    /\ pending = NoPending
    /\ csr = NoCsr
    /\ sub = NoSub
    /\ vn = NoVn

\* EdgeSwap.__init__: the three checks in the order of the code; the edge
\* list is built only after the first two have passed
Construct ==
    /\ pc = "new"
    /\ LET r == __init__(adjacency)
       IN  /\ pc' = IF r.raised THEN "raised" ELSE "ready"
           /\ err' = r.err
           /\ edge_list' = r.edge_list
    /\ UNCHANGED <<input, adjacency, n_swaps, seed, swap, trials,
                   orig_inds, calls, run, first, budget>>
    /\ UNCHANGED accepted
    /\ UNCHANGED aux

\* swap_edges, line 175: np.random.randint(seed) draws an integer below seed
\* from the process-wide generator and drops it; it raises ValueError unless
\* seed > 0, and it does not seed the generator
CallRaise ==
    /\ pc = "ready"
    /\ calls < MaxCalls
    /\ \E n \in 0 .. budget, s \in Seeds :
          /\ ~(s > 0)
          /\ n_swaps' = n
          /\ seed' = s
    /\ calls' = calls + 1
    /\ swap' = 0
    /\ trials' = 0
    /\ orig_inds' = <<>>
    /\ pc' = "failed"
    /\ err' = "low >= high"
    /\ UNCHANGED <<input, adjacency, edge_list, run, first, budget>>
    /\ UNCHANGED accepted
    /\ UNCHANGED aux

\* variant: swap_edges starts every call from the constructed input
Call_resets ==
    /\ pc = "ready"
    /\ calls < MaxCalls
    /\ \E n \in 0 .. budget, s \in Seeds :
          /\ s > 0
          /\ n_swaps' = n
          /\ seed' = s
          /\ budget' = budget - n
    /\ calls' = calls + 1
    /\ swap' = 0
    /\ trials' = 0
    /\ orig_inds' = <<>>
    /\ pc' = "loop"
    /\ adjacency' = input
    /\ edge_list' = _do_setup(input)
    /\ UNCHANGED <<input, err, run, first>>
    /\ UNCHANGED accepted
    /\ UNCHANGED aux

\* swap_edges with seed > 0: line 175 returns and the loop of line 176 begins
\* on self.adjacency and self.edge_list as they are
Call ==
    /\ pc = "ready"
    /\ calls < MaxCalls
    /\ \E n \in 0 .. budget, s \in Seeds :
          /\ s > 0
          /\ n_swaps' = n
          /\ seed' = s
          /\ budget' = budget - n
    /\ calls' = calls + 1
    /\ swap' = 0
    /\ trials' = 0
    /\ orig_inds' = <<>>
    /\ pc' = "loop"
    /\ UNCHANGED <<input, adjacency, edge_list, err, run, first>>
    /\ UNCHANGED accepted
    /\ UNCHANGED aux

\* one iteration of the for loop: the draw of line 117, whose outcome nothing
\* in swap_edges determines, then the rest of _edge_swap and the assignment
\* of its result to self.adjacency and self.edge_list
Trial ==
    /\ pc = "loop"
    /\ swap < n_swaps
    /\ \E inds \in choice(Len(edge_list)) :
          LET r == _edge_swap(adjacency, edge_list, inds)
          IN  /\ adjacency' = r.adjacency
              /\ edge_list' = r.edge_list
              /\ orig_inds' = inds
              /\ accepted' = IF validator(adjacency, edge_list, inds)
                             THEN Append(accepted, inds) ELSE accepted
    /\ swap' = swap + 1
    /\ trials' = trials + 1
    /\ UNCHANGED <<input, pc, err, n_swaps, seed, calls, run, first, budget>>
    /\ UNCHANGED aux

\* the draw of line 117 when edge_list has fewer than two entries:
\* np.random.choice raises ValueError
TrialRaise ==
    /\ pc = "loop"
    /\ swap < n_swaps
    /\ choice(Len(edge_list)) = {}
    /\ pc' = "failed"
    /\ err' = "Cannot take a larger sample than population when 'replace=False'"
    /\ trials' = trials + 1
    /\ UNCHANGED <<input, adjacency, edge_list, n_swaps, seed, swap, orig_inds,
                   calls, run, first, budget>>
    /\ UNCHANGED accepted
    /\ UNCHANGED aux

\* swap_edges, line 181: the loop is exhausted
Return ==
    /\ pc = "loop"
    /\ swap = n_swaps
    /\ pc' = "ready"
    /\ orig_inds' = <<>>
    /\ UNCHANGED <<input, adjacency, edge_list, err, n_swaps, seed, swap, trials,
                   calls, run, first, budget>>
    /\ UNCHANGED accepted
    /\ UNCHANGED aux

\* the caller keeps the result of the first call and builds a second EdgeSwap
\* from a fresh copy of the same input
Again ==
    /\ pc = "ready"
    /\ run = 1
    /\ calls = 1
    /\ first' = [adjacency |-> adjacency, edge_list |-> edge_list,
                 n_swaps |-> n_swaps, seed |-> seed]
    /\ run' = 2
    /\ adjacency' = input
    /\ edge_list' = _do_setup(input)
    /\ calls' = 0
    /\ swap' = 0
    /\ trials' = 0
    /\ orig_inds' = <<>>
    /\ accepted' = <<>>
    /\ UNCHANGED <<input, pc, err, n_swaps, seed, budget>>
    /\ UNCHANGED aux

Next ==
    \/ Construct
    \/ CallRaise
    \/ Call
    \/ Trial
    \/ TrialRaise
    \/ Return
    \/ Again

Spec == Init /\ [][Next]_vars

(* ---- two EdgeSwap instances with interleaved trials ---- *)
\* the variables of the single-instance run, unused here
single == <<adjacency, edge_list, pc, err, n_swaps, seed, swap, trials,
            orig_inds, calls, run, first, accepted, pending, other>>

\* the caller holds a matrix that construction accepts (array 1) and a copy
\* of it (array 2); no instance exists yet
InitTwo ==
    /\ input \in {m \in Inputs : ~__init__(m).raised}
    /\ adjacency = input
    /\ edge_list = <<>>
    /\ pc = "new"
    /\ err = "none"
    /\ n_swaps = 0
    /\ seed = 0
    /\ swap = 0
    /\ trials = 0
    /\ orig_inds = <<>>
    /\ calls = 0
    /\ run = 1
    /\ first = NoResult
    /\ budget = MaxTrials
    /\ accepted = <<>>
    /\ heap = <<input, input>>
    /\ chain = <<>>
    /\ pending = NoPending
    /\ csr = NoCsr
    /\ sub = NoSub
    /\ vn = NoVn

\* EdgeSwap.__init__ on array ref: line 66 stores the argument itself, not a
\* copy, and line 70 stores the edge list built from it
ConstructTwo ==
    /\ Len(chain) < 2
    /\ \E ref \in DOMAIN heap :
          LET r == __init__(heap[ref])
          IN  /\ ~r.raised
              /\ chain' = Append(chain, [adjacency |-> ref, edge_list |-> r.edge_list])
    /\ UNCHANGED <<input, heap, budget>>
    /\ UNCHANGED single

\* one iteration of the loop of swap_edges in instance c, the two instances
\* taking turns in any order
TrialTwo ==
    /\ Len(chain) = 2
    /\ budget > 0
    /\ \E c \in DOMAIN chain :
          \E inds \in choice(Len(chain[c].edge_list)) :
             LET r == _edge_swap(heap[chain[c].adjacency], chain[c].edge_list, inds)
             IN  /\ heap' = [heap EXCEPT ![chain[c].adjacency] = r.adjacency]
                 /\ chain' = [chain EXCEPT ![c].edge_list = r.edge_list]
    /\ budget' = budget - 1
    /\ UNCHANGED input
    /\ UNCHANGED single

NextTwo ==
    \/ ConstructTwo
    \/ TrialTwo

SpecTwo == InitTwo /\ [][NextTwo]_vars

(* ---- two trials of one instance overlapped ---- *)
\* lines 145-153 with the values u, v, x, y read at lines 119-120
write_swap(adj, el, t) ==
    [adjacency |->
        [[[[adj EXCEPT ![t.u, t.v] = 0]
                EXCEPT ![t.x, t.y] = 0]
                EXCEPT ![t.u, t.x] = 1]
                EXCEPT ![t.v, t.y] = 1],
     edge_list |->
        [[el EXCEPT ![t.inds[1] + 1] = <<t.u, t.x>>]
             EXCEPT ![t.inds[2] + 1] = <<t.v, t.y>>]]

\* lines 117-120: the drawn pair and the entries read at its positions
read_entries(el, inds) ==
    [inds |-> inds,
     u |-> el[inds[1] + 1][1], v |-> el[inds[1] + 1][2],
     x |-> el[inds[2] + 1][1], y |-> el[inds[2] + 1][2]]

\* two trials draw their pairs and run lines 117-142 on the same state,
\* both passing the four checks, before either reaches line 145
OverlapValidate ==
    /\ pc = "ready"
    /\ \E i1 \in choice(Len(edge_list)), i2 \in choice(Len(edge_list)) :
          /\ i1 # i2
          /\ validator(adjacency, edge_list, i1)
          /\ validator(adjacency, edge_list, i2)
          /\ pending' = [base |-> [adjacency |-> adjacency, edge_list |-> edge_list],
                         locals |-> <<read_entries(edge_list, i1),
                                      read_entries(edge_list, i2)>>,
                         done |-> {}]
    /\ pc' = "overlap"
    /\ UNCHANGED <<input, adjacency, edge_list, err, n_swaps, seed, swap, trials,
                   orig_inds, calls, run, first, budget, accepted, heap, chain>>
    /\ UNCHANGED other

\* one of the two validated trials runs lines 145-154
OverlapExecute ==
    /\ pc = "overlap"
    /\ \E k \in DOMAIN pending.locals \ pending.done :
          LET r == write_swap(adjacency, edge_list, pending.locals[k])
          IN  /\ adjacency' = r.adjacency
              /\ edge_list' = r.edge_list
              /\ pending' = [pending EXCEPT !.done = @ \cup {k}]
              /\ pc' = IF pending.done \cup {k} = DOMAIN pending.locals
                       THEN "overlapped" ELSE "overlap"
    /\ UNCHANGED <<input, err, n_swaps, seed, swap, trials,
                   orig_inds, calls, run, first, budget, accepted, heap, chain>>
    /\ UNCHANGED other

NextOverlap ==
    \/ Construct
    \/ OverlapValidate
    \/ OverlapExecute

SpecOverlap == Init /\ [][NextOverlap]_vars

(* ---- EdgeSwap on a csr_matrix ---- *)
\* row i of csr_matrix(adj) from column k on: the nonzero cells of the row
\* as <<column, value>>, in column order
RECURSIVE csr_row(_, _, _)
csr_row(adj, i, k) ==
    IF k = N THEN <<>>
    ELSE IF adj[i, k] # 0 THEN <<<<k, adj[i, k]>>>> \o csr_row(adj, i, k + 1)
    ELSE csr_row(adj, i, k + 1)

\* the csr_matrix holding the content adj: per row the stored entries
csr_matrix(adj) == [i \in 1 .. N |-> csr_row(adj, i - 1, 0)]

\* adjacency[i, j] on a csr_matrix: the stored value, 0 when none is stored
getitem(sp, i, j) ==
    LET row == sp[i + 1]
        hits == {k \in DOMAIN row : row[k][1] = j}
    IN  IF hits = {} THEN 0 ELSE row[CHOOSE k \in hits : TRUE][2]

\* adjacency[i, j] = val on a csr_matrix: a stored entry is overwritten (a 0
\* stays stored), a missing one is inserted at its place in the row
setitem(sp, i, j, val) ==
    LET row == sp[i + 1]
        hits == {k \in DOMAIN row : row[k][1] = j}
    IN  IF hits # {}
        THEN [sp EXCEPT ![i + 1] = [row EXCEPT ![CHOOSE k \in hits : TRUE] = <<j, val>>]]
        ELSE [sp EXCEPT ![i + 1] =
                 SelectSeq(row, LAMBDA e : e[1] < j) \o <<<<j, val>>>>
                     \o SelectSeq(row, LAMBDA e : e[1] > j)]

\* np.nonzero on a csr_matrix, rows i and later: the stored entries whose
\* value is not 0, in storage order
RECURSIVE csr_nonzero(_, _)
csr_nonzero(sp, i) ==
    IF i = N THEN <<>>
    ELSE LET kept == SelectSeq(sp[i + 1], LAMBDA e : e[2] # 0)
         IN  [k \in 1 .. Len(kept) |-> <<i, kept[k][1]>>] \o csr_nonzero(sp, i + 1)

\* _do_setup when self.adjacency is a csr_matrix
_do_setup_csr(sp) == csr_nonzero(sp, 0)

\* graspologic.utils.is_unweighted on a csr_matrix: every stored value is 0 or 1
is_unweighted_csr(sp) ==
    \A i \in DOMAIN sp : \A k \in DOMAIN sp[i] : sp[i][k][2] \in {0, 1}

\* variant: the scan of line 60 stops one row early
RECURSIVE loop_check_csr_skips_last(_, _)
loop_check_csr_skips_last(sp, i) ==
    IF i >= N - 1 THEN FALSE
    ELSE IF getitem(sp, i, i) # 0 THEN TRUE
    ELSE loop_check_csr_skips_last(sp, i + 1)

\* lines 60-63: loop_check after the scan of the diagonal cells i, i+1, ...
RECURSIVE loop_check_csr(_, _)
loop_check_csr(sp, i) ==
    IF i = N THEN FALSE
    ELSE IF getitem(sp, i, i) # 0 THEN TRUE
    ELSE loop_check_csr(sp, i + 1)

\* the constructor on a csr_matrix: the branch of line 59
__init__csr(sp) ==
    LET weight_check == is_unweighted_csr(sp)
    IN  IF ~check_argument(weight_check = TRUE)
        THEN [raised |-> TRUE, err |-> "adjacency must be unweighted",
              edge_list |-> <<>>]
        ELSE IF ~check_argument(loop_check_csr(sp, 0) = FALSE)
        THEN [raised |-> TRUE, err |-> "adjacency cannot have loops",
              edge_list |-> <<>>]
        ELSE LET el == _do_setup_csr(sp)
             IN  IF ~check_argument(truthy(len_edge_list_ge_2(el)))
                 THEN [raised |-> TRUE, err |-> "there must be at least 2 edges",
                       edge_list |-> <<>>]
                 ELSE [raised |-> FALSE, err |-> "none", edge_list |-> el]

\* _edge_swap after the draw, on a csr_matrix
_edge_swap_csr(sp, el, inds) ==
    LET u == el[inds[1] + 1][1]
        v == el[inds[1] + 1][2]
        x == el[inds[2] + 1][1]
        y == el[inds[2] + 1][2]
        same == [adjacency |-> sp, edge_list |-> el]
    IN  IF u = v \/ x = y THEN same
        ELSE IF u = x \/ v = y THEN same
        ELSE LET w_uv == getitem(sp, u, v)
                 w_xy == getitem(sp, x, y)
                 w_ux == getitem(sp, u, x)
                 w_vy == getitem(sp, v, y)
             IN  IF w_uv > 1 \/ w_xy > 1 THEN same
                 ELSE IF w_ux >= 1 \/ w_vy >= 1 THEN same
                 ELSE [adjacency |->
                          setitem(setitem(setitem(setitem(sp, u, v, 0), x, y, 0),
                                          u, x, 1), v, y, 1),
                       edge_list |->
                          [[el EXCEPT ![inds[1] + 1] = <<u, x>>]
                               EXCEPT ![inds[2] + 1] = <<v, y>>]]

\* the caller holds the content as an array and as a csr_matrix
InitBackends ==
    /\ input \in Inputs
    /\ adjacency = input
    /\ edge_list = <<>>
    /\ pc = "new"
    /\ err = "none"
    /\ n_swaps = 0
    /\ seed = 0
    /\ swap = 0
    /\ trials = 0
    /\ orig_inds = <<>>
    /\ calls = 0
    /\ run = 1
    /\ first = NoResult
    /\ budget = MaxTrials
    /\ accepted = <<>>
    /\ heap = <<>>
    /\ chain = <<>>
    /\ pending = NoPending
    /\ csr = [pc |-> "new", adjacency |-> csr_matrix(input), edge_list |-> <<>>,
              err |-> "none"]
    /\ sub = NoSub
    /\ vn = NoVn

\* EdgeSwap.__init__ on the csr_matrix
ConstructCsr ==
    /\ csr.pc = "new"
    /\ LET r == __init__csr(csr.adjacency)
       IN  csr' = [csr EXCEPT !.pc = IF r.raised THEN "raised" ELSE "ready",
                              !.err = r.err,
                              !.edge_list = r.edge_list]
    /\ UNCHANGED <<input, adjacency, edge_list, pc, err, n_swaps, seed, swap, trials,
                   orig_inds, calls, run, first, budget, accepted, heap, chain,
                   pending, sub, vn>>

\* one iteration of the loop of swap_edges in each of the two instances, the
\* draw of line 117 giving the same pair in both
TrialBoth ==
    /\ pc = "ready"
    /\ csr.pc = "ready"
    /\ budget > 0
    /\ \E inds \in choice(Len(edge_list)) \cap choice(Len(csr.edge_list)) :
          LET r == _edge_swap(adjacency, edge_list, inds)
              q == _edge_swap_csr(csr.adjacency, csr.edge_list, inds)
          IN  /\ adjacency' = r.adjacency
              /\ edge_list' = r.edge_list
              /\ orig_inds' = inds
              /\ csr' = [csr EXCEPT !.adjacency = q.adjacency,
                                    !.edge_list = q.edge_list]
    /\ budget' = budget - 1
    /\ UNCHANGED <<input, pc, err, n_swaps, seed, swap, trials, calls, run, first,
                   accepted, heap, chain, pending, sub, vn>>

NextBackends ==
    \/ Construct
    \/ ConstructCsr
    \/ TrialBoth

SpecBackends == InitBackends /\ [][NextBackends]_vars

(* ---- nominate/VNviaSGM.py: the induced subgraph about a node ---- *)
\* the indices 0 .. n-1 of an axis of length n
arange(n) == 0 .. (n - 1)

\* a two-dimensional n x n array with the given cells
square(n, cells) == [kind |-> "array", shape |-> <<n, n>>, cell |-> cells]

\* the n x n arrays of zeros and ones with at most k ones
RECURSIVE ZeroOne(_, _)
ZeroOne(n, k) ==
    IF k = 0 THEN {[c \in arange(n) \X arange(n) |-> 0]}
    ELSE LET fewer == ZeroOne(n, k - 1)
         IN  fewer \cup {[m EXCEPT ![c] = 1] : m \in fewer, c \in arange(n) \X arange(n)}

\* np.where(graph_adj_matrix[nn] >= 1)[0]
where_row_ge_1(graph_adj_matrix, nn) ==
    {j \in arange(graph_adj_matrix.shape[2]) : graph_adj_matrix.cell[nn, j] >= 1}

\* the loop of lines 288-299 from iteration ii on: dists, the lists of
\* vertices found at each iteration, and dists_conglom, all vertices found
RECURSIVE dists_loop(_, _, _, _, _)
dists_loop(graph_adj_matrix, order, ii, dists, dists_conglom) ==
    IF ii > order THEN dists
    ELSE LET clst == UNION {where_row_ge_1(graph_adj_matrix, nn) : nn \in dists[Len(dists)]}
             cn_proc == clst \ dists_conglom
         IN  dists_loop(graph_adj_matrix, order, ii + 1,
                        Append(dists, cn_proc), dists_conglom \cup cn_proc)

\* _get_induced_subgraph: the vertices of dists[mindist : order + 1], as a set
_get_induced_subgraph(graph_adj_matrix, order, node, mindist) ==
    LET dists == dists_loop(graph_adj_matrix, order, 1, <<{node}>>, {node})
    IN  UNION {dists[k + 1] : k \in {k \in mindist .. order : k + 1 <= Len(dists)}}

\* _get_induced_subgraph_list: node is [type |-> "list", value |-> a sequence]
\* or [type |-> "int", value |-> a vertex]; line 340 passes no mindist, so the
\* default of line 260 applies
_get_induced_subgraph_list(graph_adj_matrix, order, node, mindist) ==
    IF node.type = "list"
    THEN UNION {_get_induced_subgraph(graph_adj_matrix, order, node.value[k], mindist) :
                    k \in DOMAIN node.value}
    ELSE _get_induced_subgraph(graph_adj_matrix, order, node.value, 1)

\* the sequences over S of length at most n
RECURSIVE SeqsUpTo(_, _)
SeqsUpTo(S, n) ==
    IF n = 0 THEN {<<>>}
    ELSE LET shorter == SeqsUpTo(S, n - 1)
         IN  shorter \cup {Append(q, e) : q \in shorter, e \in S}

\* the node arguments: a vertex, or a list of vertices
Nodes ==
    {[type |-> "int", value |-> w] : w \in arange(NV)}
        \cup {[type |-> "list", value |-> q] : q \in SeqsUpTo(arange(NV), MaxSeedCount + 1)}

\* every variable of the edge swap model at rest
EdgeSwapIdle ==
    /\ input = ZeroMatrix
    /\ adjacency = input
    /\ edge_list = <<>>
    /\ pc = "new"
    /\ err = "none"
    /\ n_swaps = 0
    /\ seed = 0
    /\ swap = 0
    /\ trials = 0
    /\ orig_inds = <<>>
    /\ calls = 0
    /\ run = 1
    /\ first = NoResult
    /\ budget = MaxTrials
    /\ accepted = <<>>
    /\ heap = <<>>
    /\ chain = <<>>
    /\ pending = NoPending
    /\ csr = NoCsr

edgeswap_vars == <<input, adjacency, edge_list, pc, err, n_swaps, seed, swap, trials,
                   orig_inds, calls, run, first, budget, accepted, heap, chain,
                   pending, csr>>

InitSubgraph ==
    /\ EdgeSwapIdle
    /\ sub = [pc |-> "idle"]
    /\ vn = NoVn

\* a caller passes a graph, an order, a node or a list of nodes, and mindist
SubgraphCall ==
    /\ sub.pc = "idle"
    /\ \E g \in ZeroOne(NV, MaxVnArcs + 1), order \in 0 .. MaxOrder,
          node \in Nodes, mindist \in 0 .. (MaxOrder + 1) :
          sub' = [pc |-> "called", graph_adj_matrix |-> square(NV, g), order |-> order,
                  node |-> node, mindist |-> mindist]
    /\ UNCHANGED edgeswap_vars
    /\ UNCHANGED vn

SubgraphReturn ==
    /\ sub.pc = "called"
    /\ sub' = [pc |-> "returned", graph_adj_matrix |-> sub.graph_adj_matrix,
               order |-> sub.order, node |-> sub.node, mindist |-> sub.mindist,
               induced_subgraph |->
                   _get_induced_subgraph_list(sub.graph_adj_matrix, sub.order,
                                              sub.node, sub.mindist)]
    /\ UNCHANGED edgeswap_vars
    /\ UNCHANGED vn

NextSubgraph ==
    \/ SubgraphCall
    \/ SubgraphReturn

SpecSubgraph == InitSubgraph /\ [][NextSubgraph]_vars

(* ---- nominate/VNviaSGM.py: fit and fit_predict ---- *)
\* the arguments A and B that are not square matrices: None, a vector, and a
\* matrix with more columns than rows
NoArray == [kind |-> "None", shape |-> <<>>, cell |-> <<>>]

Vector == [kind |-> "array", shape |-> <<NV>>, cell |-> <<>>]

NonSquare == [kind |-> "array", shape |-> <<NV, NV + 1>>, cell |-> <<>>]

\* the complete graph without loops
Complete == [c \in arange(NV) \X arange(NV) |-> IF c[1] = c[2] THEN 0 ELSE 1]

\* the graphs A: every graph with at most MaxVnArcs arcs
ArraysA ==
    {NoArray, Vector, NonSquare} \cup {square(NV, g) : g \in ZeroOne(NV, MaxVnArcs)}

\* the graphs B: the empty and the complete graph
ArraysB ==
    {NoArray, Vector, NonSquare} \cup {square(NV, g) : g \in ZeroOne(NV, 0) \cup {Complete}}

Range(q) == {q[k] : k \in DOMAIN q}

\* the lists of at most MaxSeedCount different vertices taken from S
SeedLists(S) ==
    {q \in SeqsUpTo(S, MaxSeedCount) : Cardinality(Range(q)) = Len(q)}

\* the seeds arguments for a vertex of interest: [], [seedsA], [seedsA,
\* seedsB] and a list of three; seeds are vertices of the graphs and the
\* vertex of interest is not one of seedsA
SeedArgs(voi) ==
    LET la == SeedLists(arange(NV) \ {voi})
        lb == SeedLists(arange(NV))
    IN  {<<>>} \cup {<<a>> : a \in la} \cup {<<a, a, a>> : a \in la}
            \cup {<<a, b>> : a \in la, b \in lb}

ndim(a) == Len(a.shape)

\* a set of integers as an ascending array
RECURSIVE sorted(_)
sorted(S) ==
    IF S = {} THEN <<>>
    ELSE LET m == CHOOSE m \in S : \A e \in S : m <= e
         IN  <<m>> \o sorted(S \ {m})

setdiff1d(S, T) == sorted(S \ T)

intersect1d(S, T) == sorted(S \cap T)

\* a[np.ix_(reord, reord)]
ix_(a, reord) ==
    square(Len(reord),
           [c \in arange(Len(reord)) \X arange(Len(reord)) |->
               a.cell[reord[c[1] + 1], reord[c[2] + 1]]])

\* variant: the test of line 113 comes before the checks of A and B
fit_checks_seeds_first(A, B, seeds) ==
    IF Len(seeds) = 0 THEN "return None"
    ELSE IF A.kind = "None" \/ B.kind = "None"
    THEN "Adjacency matrices must be passed"
    ELSE IF ndim(A) # 2 \/ ndim(B) # 2
    THEN "Adjacency matrix entries must be two-dimensional"
    ELSE IF A.shape[1] # A.shape[2] \/ B.shape[1] # B.shape[2]
    THEN "Adjacency matrix entries must be square"
    ELSE IF Len(seeds) # 2
    THEN "List must be length two, with first element containing seeds of A and the second containing seeds of B"
    ELSE IF Len(seeds[1]) # Len(seeds[2])
    THEN "Must have the same number of seeds for each adjacency matrix"
    ELSE IF Len(seeds[1]) = 0
    THEN "Must include at least one seed to produce nomination list"
    ELSE "pass"

\* lines 103-129: the message of the ValueError raised, "return None" for the
\* return of line 115, "pass" when line 131 is reached
fit_checks(A, B, seeds) ==
    IF A.kind = "None" \/ B.kind = "None"
    THEN "Adjacency matrices must be passed"
    ELSE IF ndim(A) # 2 \/ ndim(B) # 2
    THEN "Adjacency matrix entries must be two-dimensional"
    ELSE IF A.shape[1] # A.shape[2] \/ B.shape[1] # B.shape[2]
    THEN "Adjacency matrix entries must be square"
    ELSE IF Len(seeds) = 0 THEN "return None"
    ELSE IF Len(seeds) # 2
    THEN "List must be length two, with first element containing seeds of A and the second containing seeds of B"
    ELSE IF Len(seeds[1]) # Len(seeds[2])
    THEN "Must have the same number of seeds for each adjacency matrix"
    ELSE IF Len(seeds[1]) = 0
    THEN "Must include at least one seed to produce nomination list"
    ELSE "pass"

\* lines 131-159: close_seeds, the positions in the reordered graph of the
\* seeds found in the induced subgraph about the vertex of interest
close_seeds(self, A, voi, seedsA) ==
    LET nsx1 == setdiff1d(arange(A.shape[1]), Range(seedsA) \cup {voi})
        a_reord == seedsA \o <<voi>> \o nsx1
        AA == ix_(A, a_reord)
        seeds_reord == arange(Len(seedsA))
        voi_reord == Len(seedsA)
        subgraph_AA ==
            _get_induced_subgraph_list(AA, self.order_voi_subgraph,
                                       [type |-> "int", value |-> voi_reord], 1)
    IN  intersect1d(subgraph_AA, seeds_reord)

\* the orders in which the matcher's probabilities can rank the candidates
Rankings(q) ==
    {[k \in DOMAIN q |-> q[p[k]]] :
        p \in {p \in [DOMAIN q -> DOMAIN q] : \A i, j \in DOMAIN q : p[i] = p[j] => i = j}}

\* lines 169-217: the attribute values fit can leave; the nomination list is
\* kept as its column of vertices of B, whose order follows the probabilities
\* that the graph matcher returns
nominations(self, A, B, voi, seedsA, seedsB, close) ==
    LET nsx1 == setdiff1d(arange(A.shape[1]), Range(seedsA) \cup {voi})
        a_reord == seedsA \o <<voi>> \o nsx1
        nsx2 == setdiff1d(arange(B.shape[1]), Range(seedsB))
        b_reord == seedsB \o nsx2
        AA == ix_(A, a_reord)
        BB == ix_(B, b_reord)
        voi_reord == Len(seedsA)
        verts_A == _get_induced_subgraph_list(AA, self.order_seeds_subgraph,
                                              [type |-> "list", value |-> close], 0)
        verts_B == _get_induced_subgraph_list(BB, self.order_seeds_subgraph,
                                              [type |-> "list", value |-> close], 0)
        foo == close \o <<voi_reord>>
        ind1 == close \o <<voi_reord>> \o setdiff1d(verts_A, Range(foo))
        ind2 == close \o setdiff1d(verts_B, Range(close))
        b_inds == [k \in DOMAIN ind2 |-> b_reord[ind2[k] + 1]]
        n_seeds == Len(close)
    IN  {[order_voi_subgraph |-> self.order_voi_subgraph,
          order_seeds_subgraph |-> self.order_seeds_subgraph,
          n_seeds |-> n_seeds,
          nomination_list |-> nomination_list] :
            nomination_list \in Rankings(SubSeq(b_inds, n_seeds + 1, Len(b_inds)))}

\* how a call ends: raising msg, or returning ret ("None", "self" or
\* "nomination_list" with its value); self is the estimator afterwards and
\* matched tells whether the graph matcher was run
Outcome(raised, msg, ret, value, self, matched) ==
    [raised |-> raised, msg |-> msg, ret |-> ret, value |-> value,
     self |-> self, matched |-> matched]

\* variant: lines 161-167 are missing, the matcher runs without close seeds
fit_no_close_seeds_check(self, A, B, voi, seeds) ==
    LET checked == fit_checks(A, B, seeds)
    IN  IF checked = "return None"
        THEN {Outcome(FALSE, "", "None", <<>>, self, FALSE)}
        ELSE IF checked # "pass"
        THEN {Outcome(TRUE, checked, "raise", <<>>, self, FALSE)}
        ELSE LET close == close_seeds(self, A, voi, seeds[1])
             IN  {Outcome(FALSE, "", "self", <<>>, fitted, TRUE) :
                     fitted \in nominations(self, A, B, voi, seeds[1], seeds[2], close)}

\* fit: the ways the call can end
fit(self, A, B, voi, seeds) ==
    LET checked == fit_checks(A, B, seeds)
    IN  IF checked = "return None"
        THEN {Outcome(FALSE, "", "None", <<>>, self, FALSE)}
        ELSE IF checked # "pass"
        THEN {Outcome(TRUE, checked, "raise", <<>>, self, FALSE)}
        ELSE LET close == close_seeds(self, A, voi, seeds[1])
             IN  IF Len(close) <= 0
                 THEN {Outcome(FALSE, "", "None", <<>>, self, FALSE)}
                 ELSE {Outcome(FALSE, "", "self", <<>>, fitted, TRUE) :
                         fitted \in nominations(self, A, B, voi, seeds[1], seeds[2], close)}

\* fit_predict, lines 249-257
fit_predict(self, A, B, voi, seeds) ==
    {IF retval.raised \/ retval.ret = "None" THEN retval
     ELSE Outcome(FALSE, "", "nomination_list", retval.self.nomination_list,
                  retval.self, retval.matched) :
        retval \in fit(self, A, B, voi, seeds)}

\* an estimator built with valid orders, lines 59-74, and not yet fitted
InitNominate ==
    /\ EdgeSwapIdle
    /\ sub = NoSub
    /\ \E o1 \in 1 .. MaxOrder, o2 \in 1 .. MaxOrder :
          vn = [pc |-> "ready", fits |-> 0,
                self |-> [order_voi_subgraph |-> o1, order_seeds_subgraph |-> o2]]

\* a caller invokes fit or fit_predict
VnCall ==
    /\ vn.pc = "ready"
    /\ vn.fits < MaxFits
    /\ \E method \in {"fit", "fit_predict"}, A \in ArraysA, B \in ArraysB,
          voi \in arange(NV) :
          \E seeds \in SeedArgs(voi) :
             vn' = [pc |-> "called", fits |-> vn.fits, self |-> vn.self,
                    method |-> method, A |-> A, B |-> B, voi |-> voi, seeds |-> seeds]
    /\ UNCHANGED edgeswap_vars
    /\ UNCHANGED sub

\* the call ends in one of the ways the method allows
VnReturn ==
    /\ vn.pc = "called"
    /\ \E r \in IF vn.method = "fit"
                THEN fit(vn.self, vn.A, vn.B, vn.voi, vn.seeds)
                ELSE fit_predict(vn.self, vn.A, vn.B, vn.voi, vn.seeds) :
          vn' = [pc |-> "returned", fits |-> vn.fits + 1, self |-> r.self,
                 method |-> vn.method, A |-> vn.A, B |-> vn.B, voi |-> vn.voi,
                 seeds |-> vn.seeds, outcome |-> r]
    /\ UNCHANGED edgeswap_vars
    /\ UNCHANGED sub

\* the caller has taken the result; the estimator keeps its attributes
VnResume ==
    /\ vn.pc = "returned"
    /\ vn' = [pc |-> "ready", fits |-> vn.fits, self |-> vn.self]
    /\ UNCHANGED edgeswap_vars
    /\ UNCHANGED sub

NextNominate ==
    \/ VnCall
    \/ VnReturn
    \/ VnResume

SpecNominate == InitNominate /\ [][NextNominate]_vars

(* ======================= properties ======================= *)

\* an EdgeSwap instance exists: the constructor returned
Constructed == pc \in {"ready", "loop", "failed"}

\* a swap_edges call on the current instance has ended, by return or by raise
CallEnded == calls >= 1 /\ pc \in {"ready", "failed"}

\* a swap_edges call on the current instance has returned
CallReturned == calls >= 1 /\ pc = "ready"

RECURSIVE row_sum_from(_, _, _)
row_sum_from(adj, u, k) ==
    IF k = N THEN 0 ELSE adj[u, k] + row_sum_from(adj, u, k + 1)

\* the degree vector: row sums of the matrix
RowSums(adj) == [u \in Vertices |-> row_sum_from(adj, u, 0)]

NonzeroCells(adj) == {c \in Cells : adj[c] # 0}

Entries(el) == {el[k] : k \in DOMAIN el}

\* the four rejection conditions of the validator, on the entries (u,v)
\* and (x,y) at the drawn positions
RejectionCondition(adj, el, inds) ==
    LET u == el[inds[1] + 1][1]
        v == el[inds[1] + 1][2]
        x == el[inds[2] + 1][1]
        y == el[inds[2] + 1][2]
    IN  \/ u = v \/ x = y
        \/ u = x \/ v = y
        \/ adj[u, v] > 1 \/ adj[x, y] > 1
        \/ adj[u, x] >= 1 \/ adj[v, y] >= 1

\* the step is a trial of the chain that drew a pair
IsTrial == pc = "loop" /\ pc' = "loop" /\ trials' = trials + 1

\* C1: degree invariance - after swap_edges the row-sum vector of the
\* adjacency matrix equals the row-sum vector of the constructed input,
\* entry by entry, whatever pairs were drawn.
C1_DegreeInvariance ==
    Constructed => RowSums(adjacency) = RowSums(input)

\* C2: simplicity invariance - in every state of a constructed chain every
\* diagonal cell is 0 and every other cell is 0 or 1.
C2_Simplicity ==
    Constructed =>
        /\ \A i \in Vertices : adjacency[i, i] = 0
        /\ \A c \in Cells : adjacency[c] \in {0, 1}

\* a chain whose second trial has just been made and that has accepted a swap
C2_Witness ==
    /\ pc = "loop"
    /\ trials >= 2
    /\ adjacency # input

\* C3: edge-list/matrix bijection - at every trial boundary of a constructed
\* chain the set of edge_list entries is exactly the set of nonzero cells of
\* the matrix and no entry occurs twice.
C3_Bijection ==
    Constructed =>
        /\ Entries(edge_list) = NonzeroCells(adjacency)
        /\ Cardinality(Entries(edge_list)) = Len(edge_list)

\* a returned call that has rewritten the edge list
C3_Witness ==
    /\ CallReturned
    /\ edge_list # _do_setup(input)
    /\ Len(edge_list) >= 3

\* C4: reproducibility - two calls with the same n_swaps and the same seed,
\* each on an instance freshly built from the same input, return the same
\* adjacency matrix and the same edge list.
C4_Reproducibility ==
    (/\ run = 2
     /\ CallReturned
     /\ calls = 1
     /\ n_swaps = first.n_swaps
     /\ seed = first.seed)
    => (adjacency = first.adjacency /\ edge_list = first.edge_list)

\* C5: once construction has succeeded, swap_edges never raises, for any
\* n_swaps >= 0 and any integer seed.
C5_SwapEdgesNeverRaises == pc # "failed"

\* C6: no instance is constructed from an input whose edge list has fewer
\* than two entries; construction raises the insufficient-edges error.
C6_InsufficientEdges ==
    (pc # "new" /\ is_unweighted(input) /\ is_loopless(input)
        /\ Cardinality(NonzeroCells(input)) < 2)
    => (pc = "raised" /\ err = "there must be at least 2 edges")

InvalidInput(m) ==
    \/ \E c \in Cells : m[c] \notin {0, 1}
    \/ \E i \in Vertices : m[i, i] # 0

InvalidInputErrors == {"adjacency must be unweighted", "adjacency cannot have loops"}

\* C7: construction fails with an invalid-input error iff the input has an
\* entry outside {0,1} or a nonzero diagonal entry; it does so before an edge
\* list exists and before any call; a 0/1 input with zero diagonal and at
\* least two nonzero cells is accepted.
C7_InvalidInput ==
    pc # "new" =>
        /\ (pc = "raised" /\ err \in InvalidInputErrors) <=> InvalidInput(input)
        /\ InvalidInput(input) => (edge_list = <<>> /\ calls = 0 /\ adjacency = input)
        /\ (~InvalidInput(input) /\ Cardinality(NonzeroCells(input)) >= 2)
               => Constructed

\* construction has refused an input whose only defect is a loop
C7_Witness ==
    /\ pc = "raised"
    /\ err = "adjacency cannot have loops"
    /\ is_unweighted(input)

\* C8: zero-step idempotence - a call swap_edges(0, s) on a fresh instance
\* returns normally, for every seed s, with the matrix and the edge list
\* that construction produced.
C8_ZeroStep ==
    (CallEnded /\ calls = 1 /\ n_swaps = 0)
    => (pc = "ready" /\ adjacency = input /\ edge_list = _do_setup(input))

\* C9: a call swap_edges(n_swaps) performs exactly n_swaps trials and ends
\* only when the loop counter has reached n_swaps.
C9_ExactlyNTrials ==
    CallEnded => (trials = n_swaps /\ swap = n_swaps)

\* C10: a rejected trial changes no cell of the adjacency matrix and no
\* entry of the edge list.
C10_RejectionNoOp ==
    [][(IsTrial /\ RejectionCondition(adjacency, edge_list, orig_inds'))
        => (adjacency' = adjacency /\ edge_list' = edge_list)]_vars

\* a trial rejected only by the post-swap multiplicity condition, made after
\* an accepted swap
C10_Witness ==
    /\ pc = "loop"
    /\ orig_inds # <<>>
    /\ adjacency # input
    /\ LET u == edge_list[orig_inds[1] + 1][1]
           v == edge_list[orig_inds[1] + 1][2]
           x == edge_list[orig_inds[2] + 1][1]
           y == edge_list[orig_inds[2] + 1][2]
       IN  /\ u # v /\ x # y /\ u # x /\ v # y
           /\ (adjacency[u, x] >= 1 \/ adjacency[v, y] >= 1)

\* the trial just made changed the matrix and the edge list
Swapped == adjacency' # adjacency /\ edge_list' # edge_list

\* C11: a trial on the drawn entries is accepted iff none of the four
\* rejection conditions holds of the adjacency and the two entries before it.
C11_AcceptIff ==
    [][IsTrial => (Swapped <=> ~RejectionCondition(adjacency, edge_list, orig_inds'))]_vars

\* the first trial of the first call was accepted
C11_Witness ==
    /\ pc = "loop"
    /\ run = 1 /\ calls = 1 /\ trials = 1
    /\ accepted = <<orig_inds>>
    /\ adjacency # input

\* C12: an accepted trial clears (u,v) and (x,y), sets (u,x) and (v,y),
\* writes (u,x) and (v,y) at the two drawn positions and changes nothing
\* else; in particular the transposed cells (v,u), (y,x), (x,u), (y,v) keep
\* their values.
C12_ExecutorFrame ==
    [][(IsTrial /\ ~RejectionCondition(adjacency, edge_list, orig_inds')) =>
        LET i == orig_inds'[1] + 1
            j == orig_inds'[2] + 1
            u == edge_list[i][1]
            v == edge_list[i][2]
            x == edge_list[j][1]
            y == edge_list[j][2]
        IN  /\ adjacency'[u, v] = 0 /\ adjacency'[x, y] = 0
            /\ adjacency'[u, x] = 1 /\ adjacency'[v, y] = 1
            /\ \A c \in Cells \ {<<u, v>>, <<x, y>>, <<u, x>>, <<v, y>>} :
                  adjacency'[c] = adjacency[c]
            /\ \A c \in {<<v, u>>, <<y, x>>, <<x, u>>, <<y, v>>} :
                  adjacency'[c] = adjacency[c]
            /\ Len(edge_list') = Len(edge_list)
            /\ edge_list'[i] = <<u, x>> /\ edge_list'[j] = <<v, y>>
            /\ \A k \in DOMAIN edge_list \ {i, j} : edge_list'[k] = edge_list[k]
            /\ pc' # "failed"]_vars

Simple(adj) ==
    /\ \A i \in Vertices : adj[i, i] = 0
    /\ \A c \in Cells : adj[c] \in {0, 1}

\* C13: from the symmetric 4-cycle, after one trial the row sums are those
\* of the input, the matrix is simple, and a rejected pair leaves the input.
C13_Cycle4OneTrial ==
    (/\ input = Cycle4
     /\ pc = "loop"
     /\ run = 1 /\ calls = 1 /\ trials = 1)
    => /\ RowSums(adjacency) = RowSums(Cycle4)
       /\ Simple(adjacency)
       /\ RejectionCondition(input, _do_setup(input), orig_inds)
             => (adjacency = input /\ edge_list = _do_setup(input))

\* C15: every trial of a constructed chain can draw, and draws two
\* different positions of the edge list.
C15_DrawPossible ==
    /\ (pc = "loop" /\ swap < n_swaps) => choice(Len(edge_list)) # {}
    /\ orig_inds # <<>> =>
          /\ orig_inds[1] # orig_inds[2]
          /\ orig_inds[1] \in 0 .. (Len(edge_list) - 1)
          /\ orig_inds[2] \in 0 .. (Len(edge_list) - 1)

\* C16: the edge list built at construction has exactly one entry for each
\* nonzero cell of the input and no other, so a pair of cells (u,v), (v,u)
\* yields two entries, and its length is the number of nonzero cells.
C16_SetupEdgeList ==
    (pc = "ready" /\ calls = 0) =>
        /\ Entries(edge_list) = NonzeroCells(input)
        /\ Len(edge_list) = Cardinality(NonzeroCells(input))
        /\ \A c \in Cells :
              (input[c] # 0 /\ input[c[2], c[1]] # 0)
                  => (\E k \in DOMAIN edge_list : edge_list[k] = c)
                     /\ (\E k \in DOMAIN edge_list : edge_list[k] = <<c[2], c[1]>>)

\* a chain just built from an input that stores an edge in both directions
C16_Witness ==
    /\ pc = "ready" /\ calls = 0
    /\ \E c \in Cells : input[c] # 0 /\ input[c[2], c[1]] # 0
    /\ Len(edge_list) >= 3

\* C18: every accepted swap is on four pairwise distinct vertices.
C18_FourDistinct ==
    [][(IsTrial /\ Swapped) =>
        LET i == orig_inds'[1] + 1
            j == orig_inds'[2] + 1
        IN  Cardinality({edge_list[i][1], edge_list[i][2],
                         edge_list[j][1], edge_list[j][2]}) = 4]_vars

\* C19: in a constructed chain no edge-list entry has equal endpoints and no
\* cell named by an entry has weight above 1, so rejection conditions 1 and 3
\* hold of no drawable pair.
C19_DefensiveChecksDead ==
    Constructed =>
        /\ \A k \in DOMAIN edge_list :
              /\ edge_list[k][1] # edge_list[k][2]
              /\ adjacency[edge_list[k]] <= 1
        /\ \A inds \in choice(Len(edge_list)) :
              LET u == edge_list[inds[1] + 1][1]
                  v == edge_list[inds[1] + 1][2]
                  x == edge_list[inds[2] + 1][1]
                  y == edge_list[inds[2] + 1][2]
              IN  ~(u = v \/ x = y) /\ ~(adjacency[u, v] > 1 \/ adjacency[x, y] > 1)

\* a trial has just been rejected after an earlier one was accepted
C19_Witness ==
    /\ pc = "loop"
    /\ orig_inds # <<>>
    /\ Len(accepted) >= 1
    /\ RejectionCondition(adjacency, edge_list, orig_inds)

\* the state reached from the constructed one by the trials on pairs[k..]
RECURSIVE Replay(_, _, _)
Replay(state, pairs, k) ==
    IF k > Len(pairs) THEN state
    ELSE Replay(_edge_swap(state.adjacency, state.edge_list, pairs[k]), pairs, k + 1)

\* C20: the adjacency and the edge list are those obtained by running only
\* the accepted pairs, in order, from the constructed state.
C20_Memoryless ==
    Constructed =>
        [adjacency |-> adjacency, edge_list |-> edge_list]
            = Replay([adjacency |-> input, edge_list |-> _do_setup(input)], accepted, 1)

\* three trials of which two were accepted, the last one among them
C20_Witness ==
    /\ pc = "loop"
    /\ calls = 1 /\ trials = 3
    /\ Len(accepted) = 2
    /\ accepted[2] = orig_inds
    /\ ~RejectionCondition(adjacency, edge_list, orig_inds)

\* C14: two instances whose trials interleave share no mutable state; each
\* keeps the bijection between its edge list and the nonzero cells of its
\* adjacency matrix, whether or not both were built from the same matrix.
C14_IndependentChains ==
    \A c \in DOMAIN chain :
        Entries(chain[c].edge_list) = NonzeroCells(heap[chain[c].adjacency])

\* the states the two validated trials reach when run one after the other
SequentialOutcomes ==
    LET b == pending.base
        i1 == pending.locals[1].inds
        i2 == pending.locals[2].inds
        after1 == _edge_swap(b.adjacency, b.edge_list, i1)
        after2 == _edge_swap(b.adjacency, b.edge_list, i2)
    IN  {_edge_swap(after1.adjacency, after1.edge_list, i2),
         _edge_swap(after2.adjacency, after2.edge_list, i1)}

\* two entries name the same cell, or an entry is a self-loop
MultiEdgeOrLoop(el) ==
    \/ Cardinality(Entries(el)) < Len(el)
    \/ \E k \in DOMAIN el : el[k][1] = el[k][2]

\* C17: when two trials were validated against the same state and then both
\* executed, each had passed the validator alone, and a result with a
\* multi-edge or a self-loop is a state that neither sequential order of the
\* two trials reaches.
C17_OverlapUnsafe ==
    pc = "overlapped" =>
        /\ \A k \in DOMAIN pending.locals :
              ~RejectionCondition(pending.base.adjacency, pending.base.edge_list,
                                  pending.locals[k].inds)
        /\ MultiEdgeOrLoop(edge_list) =>
              [adjacency |-> adjacency, edge_list |-> edge_list] \notin SequentialOutcomes

\* two overlapped trials have left two entries naming one cell, in a state
\* that no sequential order reaches
C17_Witness ==
    /\ pc = "overlapped"
    /\ Cardinality(Entries(edge_list)) < Len(edge_list)
    /\ [adjacency |-> adjacency, edge_list |-> edge_list] \notin SequentialOutcomes

RECURSIVE col_sum_from(_, _, _)
col_sum_from(adj, w, k) ==
    IF k = N THEN 0 ELSE adj[k, w] + col_sum_from(adj, w, k + 1)

\* column sums of the matrix: the arcs entering each vertex
ColSums(adj) == [w \in Vertices |-> col_sum_from(adj, w, 0)]

\* out-arcs plus in-arcs of each vertex
TotalDegree(adj) == [w \in Vertices |-> RowSums(adj)[w] + ColSums(adj)[w]]

\* C21: in every state of a constructed chain, row sum plus column sum of
\* every vertex equals its value in the input, so no trial changes it, also
\* not an accepted swap with u = y.
C21_TotalDegreeInvariance ==
    Constructed => TotalDegree(adjacency) = TotalDegree(input)

\* the only trial so far was accepted and swapped entries (u,v), (x,y) with
\* u = y: the entries now at the drawn positions are (u,x) and (v,y)
C21_Witness ==
    /\ pc = "loop"
    /\ calls = 1 /\ trials = 1
    /\ accepted = <<orig_inds>>
    /\ edge_list[orig_inds[1] + 1][1] = edge_list[orig_inds[2] + 1][2]
    /\ adjacency # input

\* C22: an accepted swap of (u,v) with (x,y) raises the row sum of v by 1
\* and lowers the row sum of x by 1 and changes no other row sum; it raises
\* the column sum of x by 1 and lowers the column sum of v by 1 and changes
\* no other column sum; v and x are different vertices.
C22_RowSumShift ==
    [][(IsTrial /\ Swapped) =>
        LET v == edge_list[orig_inds'[1] + 1][2]
            x == edge_list[orig_inds'[2] + 1][1]
        IN  /\ v # x
            /\ RowSums(adjacency') =
                  [RowSums(adjacency) EXCEPT ![v] = @ + 1, ![x] = @ - 1]
            /\ ColSums(adjacency') =
                  [ColSums(adjacency) EXCEPT ![x] = @ + 1, ![v] = @ - 1]]_vars

\* an accepted trial has just left row sums that differ from the input's
C22_Witness ==
    /\ pc = "loop"
    /\ trials >= 1
    /\ Len(accepted) >= 1
    /\ accepted[Len(accepted)] = orig_inds
    /\ RowSums(adjacency) # RowSums(input)
    /\ ColSums(adjacency) # ColSums(input)

Symmetric(adj) == \A c \in Cells : adj[c] = adj[c[2], c[1]]

\* C23 as stated, second part: from a symmetric input the matrix equals its
\* transpose only as long as every trial so far was rejected.
C23_SymmetricOnlyWhileRejected ==
    (Constructed /\ Symmetric(input) /\ Symmetric(adjacency)) => accepted = <<>>

\* C23: an accepted trial on (u,v) and (x,y) that starts from a matrix equal
\* to its transpose, the first accepted trial from a symmetric input among
\* them, leaves a matrix that is not equal to its transpose: cell (u,v) is 0
\* and cell (v,u) is still 1.
C23_AcceptedBreaksSymmetry ==
    [][(IsTrial /\ Swapped /\ Symmetric(adjacency)) =>
        LET u == edge_list[orig_inds'[1] + 1][1]
            v == edge_list[orig_inds'[1] + 1][2]
        IN  /\ ~Symmetric(adjacency')
            /\ adjacency'[u, v] = 0
            /\ adjacency'[v, u] = 1]_vars

\* the first trial on a symmetric input was accepted and left an asymmetric
\* matrix
C23_Witness ==
    /\ pc = "loop"
    /\ calls = 1 /\ trials = 1
    /\ accepted = <<orig_inds>>
    /\ Symmetric(input)
    /\ ~Symmetric(adjacency)

\* C24: in every state of a constructed chain the length of the edge list
\* and the number of nonzero cells equal their values at construction; an
\* accepted swap clears two cells that were 1 and sets two other cells that
\* were 0.
C24_EdgeCountConstant ==
    /\ [](Constructed =>
            /\ Len(edge_list) = Len(_do_setup(input))
            /\ Cardinality(NonzeroCells(adjacency)) = Cardinality(NonzeroCells(input)))
    /\ [][(IsTrial /\ Swapped) =>
            LET u == edge_list[orig_inds'[1] + 1][1]
                v == edge_list[orig_inds'[1] + 1][2]
                x == edge_list[orig_inds'[2] + 1][1]
                y == edge_list[orig_inds'[2] + 1][2]
            IN  /\ adjacency[u, v] = 1 /\ adjacency[x, y] = 1
                /\ adjacency[u, x] = 0 /\ adjacency[v, y] = 0
                /\ Cardinality({<<u, v>>, <<x, y>>, <<u, x>>, <<v, y>>}) = 4]_vars

\* two trials were accepted on a chain of at least three edges
C24_Witness ==
    /\ pc = "loop"
    /\ calls = 1 /\ trials >= 2
    /\ Len(accepted) = 2
    /\ Len(edge_list) >= 3
    /\ adjacency # input

\* C25: when every trial of the call so far was accepted and the next trial
\* draws the pair the last one drew, it is accepted too and leaves the
\* adjacency and the edge list that the last trial started from.
C25_RepeatUndoes ==
    [][(/\ IsTrial
        /\ calls = 1 /\ trials >= 1
        /\ Len(accepted) = trials
        /\ orig_inds' = orig_inds)
       => /\ accepted' = Append(accepted, orig_inds)
          /\ [adjacency |-> adjacency', edge_list |-> edge_list']
                = Replay([adjacency |-> input, edge_list |-> _do_setup(input)],
                         SubSeq(accepted, 1, trials - 1), 1)]_vars

\* an accepted trial was repeated at once and the input is back
C25_Witness ==
    /\ pc = "loop"
    /\ calls = 1 /\ trials = 2
    /\ Len(accepted) = 2
    /\ accepted[1] = accepted[2]
    /\ adjacency = input
    /\ edge_list = _do_setup(input)

\* C26: a swap_edges call starts from the adjacency and the edge list the
\* previous call left, so after a second call they are what the pairs drawn
\* in both calls produce, in order, from the constructed state, as one call
\* with those pairs does; no call resets them to the constructed input.
C26_ChainContinues ==
    /\ []((calls = 2 /\ pc = "ready") =>
            [adjacency |-> adjacency, edge_list |-> edge_list]
                = Replay([adjacency |-> input, edge_list |-> _do_setup(input)],
                         accepted, 1))
    /\ [][(pc = "ready" /\ calls' = calls + 1) =>
            (adjacency' = adjacency /\ edge_list' = edge_list)]_vars

\* a second call has returned after one accepted trial in each call
C26_Witness ==
    /\ pc = "ready"
    /\ calls = 2 /\ trials = 1
    /\ Len(accepted) = 2
    /\ adjacency # input

\* the content of a csr_matrix as an array
toarray(sp) == [c \in Cells |-> getitem(sp, c[1], c[2])]

\* C27: the constructor accepts or rejects the array and the csr_matrix of
\* the same content alike and with the same message, the diagonal scan of
\* the sparse branch finding a loop iff the dense check does; both instances
\* get the same edge list, and after the same drawn pairs they hold the
\* same edge list and the same matrix content.
C27_BackendsAlike ==
    /\ loop_check_csr(csr_matrix(input), 0) <=> ~is_loopless(input)
    /\ (pc # "new" /\ csr.pc # "new") =>
          /\ (pc = "raised") <=> (csr.pc = "raised")
          /\ err = csr.err
          /\ edge_list = csr.edge_list
          /\ toarray(csr.adjacency) = adjacency

\* both instances have made all their trials and swapped: the csr_matrix
\* stores the cleared cells as zeros
C27_Witness ==
    /\ pc = "ready" /\ csr.pc = "ready"
    /\ budget = 0
    /\ adjacency # input
    /\ csr.adjacency # csr_matrix(adjacency)
    /\ toarray(csr.adjacency) = adjacency

\* the vertices within d steps of node along nonzero row entries
RECURSIVE Ball(_, _, _)
Ball(g, node, d) ==
    IF d < 0 THEN {}
    ELSE IF d = 0 THEN {node}
    ELSE LET b == Ball(g, node, d - 1)
         IN  b \cup {j \in arange(g.shape[2]) : \E w \in b : g.cell[w, j] # 0}

\* the vertices whose shortest-path distance from node is in lo .. hi
AtDistance(g, node, lo, hi) == Ball(g, node, hi) \ Ball(g, node, lo - 1)

\* C28: _get_induced_subgraph_list returns the vertices at distance mindist
\* to order from the node, or their union over the nodes of a list, mindist
\* being honoured for a single node as for a list.
C28_InducedSubgraph ==
    sub.pc = "returned" =>
        sub.induced_subgraph =
            IF sub.node.type = "list"
            THEN UNION {AtDistance(sub.graph_adj_matrix, sub.node.value[k],
                                   sub.mindist, sub.order) : k \in DOMAIN sub.node.value}
            ELSE AtDistance(sub.graph_adj_matrix, sub.node.value, sub.mindist, sub.order)

\* the step on which a fit or fit_predict call ends
VnReturnStep == vn.pc = "called" /\ vn'.pc = "returned"

IsSquareMatrix(a) == a.kind = "array" /\ ndim(a) = 2 /\ a.shape[1] = a.shape[2]

\* the arguments pass every check of fit: two square matrices and a seeds
\* argument that is empty or a pair of equally long non-empty lists
WellFormedCall(v) ==
    /\ IsSquareMatrix(v.A) /\ IsSquareMatrix(v.B)
    /\ \/ Len(v.seeds) = 0
       \/ /\ Len(v.seeds) = 2
          /\ Len(v.seeds[1]) = Len(v.seeds[2])
          /\ Len(v.seeds[1]) > 0

\* no seed of graph A is at distance 1 .. order_voi_subgraph from the voi
NoSeedNear(v) ==
    \A k \in DOMAIN v.seeds[1] :
        v.seeds[1][k] \notin AtDistance(v.A, v.voi, 1, v.self.order_voi_subgraph)

FirstFailedCheck(v) ==
    IF v.A.kind = "None" \/ v.B.kind = "None"
    THEN "Adjacency matrices must be passed"
    ELSE IF ndim(v.A) # 2 \/ ndim(v.B) # 2
    THEN "Adjacency matrix entries must be two-dimensional"
    ELSE IF ~IsSquareMatrix(v.A) \/ ~IsSquareMatrix(v.B)
    THEN "Adjacency matrix entries must be square"
    ELSE IF Len(v.seeds) \notin {0, 2}
    THEN "List must be length two, with first element containing seeds of A and the second containing seeds of B"
    ELSE IF Len(v.seeds) = 2 /\ Len(v.seeds[1]) # Len(v.seeds[2])
    THEN "Must have the same number of seeds for each adjacency matrix"
    ELSE IF Len(v.seeds) = 2 /\ Len(v.seeds[1]) = 0
    THEN "Must include at least one seed to produce nomination list"
    ELSE "none"

\* C30: when one of the checks fails, the call raises ValueError with the
\* message of the first failing check, without running the matcher and
\* leaving every attribute of the estimator as it was; when none fails it
\* does not raise.
C30_ValidationOrder ==
    [][VnReturnStep =>
        LET r == vn'.outcome
            failed == FirstFailedCheck(vn)
        IN  /\ failed # "none" =>
                  /\ r.raised
                  /\ r.msg = failed
                  /\ ~r.matched
                  /\ vn'.self = vn.self
            /\ failed = "none" => ~r.raised]_vars

\* a call with two good matrices and seed lists of different length has
\* raised on an estimator that an earlier call had fitted
C30_Witness ==
    /\ vn.pc = "returned"
    /\ {"n_seeds", "nomination_list"} \subseteq DOMAIN vn.self
    /\ IsSquareMatrix(vn.A) /\ IsSquareMatrix(vn.B)
    /\ Len(vn.seeds) = 2
    /\ Len(vn.seeds[1]) # Len(vn.seeds[2])
    /\ vn.outcome.raised
    /\ vn.outcome.msg = "Must have the same number of seeds for each adjacency matrix"

====
